---------------------------- MODULE Spec2Model ----------------------------
(***************************************************************************)
(* A model of step_splitter.py: the STEP entity graph, the product-chain   *)
(* resolver, the dependency collector, the geometry hasher, the emitter    *)
(* and the splitter orchestrator.                                          *)
(*                                                                         *)
(* Text is modelled as follows.  A string that the program builds,         *)
(* sanitises or compares (a name, a file name) is a sequence of one        *)
(* character strings.  An entity record "#id = TYPE(payload);" is a record *)
(*   id     the number after the leading '#'                               *)
(*   type   the type word                                                  *)
(*   quoted the single-quoted strings of the payload, in order             *)
(*   refs   the #n tokens of the payload, in order                         *)
(*   nums   the numeric literals of the payload, in order                  *)
(* so that full_line is the token #id followed by the payload.             *)
(***************************************************************************)
EXTENDS Integers, Sequences, FiniteSets, TLC

\* ------------------------------------------------------------------ bounds
\* Largest number of MANIFOLD_SOLID_BREP records in an input file.
MaxBodies == 2
\* Largest number of NEXT_ASSEMBLY_USAGE_OCCURRENCE records in an input file.
MaxNauo == 2

\* ------------------------------------------------------------ small helpers
Range(s) == { s[i] : i \in DOMAIN s }

Min(S) == CHOOSE x \in S : \A y \in S : x <= y

RECURSIVE SetToSeq(_)
\* The elements of a finite set of numbers, ascending (Python's sorted()).
SetToSeq(S) ==
    IF S = {} THEN << >>
    ELSE LET m == Min(S) IN << m >> \o SetToSeq(S \ {m})

RECURSIVE SumSeq(_)
SumSeq(s) == IF s = << >> THEN 0 ELSE Head(s) + SumSeq(Tail(s))

\* ------------------------------------------------------------------- text
Digits == << "0", "1", "2", "3", "4", "5", "6", "7", "8", "9" >>

RECURSIVE Str(_)
\* str(n) of a non-negative integer, as used by the f-strings.
Str(n) ==
    IF n < 10 THEN << Digits[n + 1] >>
    ELSE Str(n \div 10) \o << Digits[(n % 10) + 1] >>

\* The characters [a-zA-Z0-9_\-] that occur in the model's names.
SafeChars == Range(Digits) \cup { "A", "B", "P", "Q", "a", "p", "s", "_", "-" }

\* str.upper() on the model's alphabet.
UpperChar(c) ==
    CASE c = "a" -> "A"
      [] c = "p" -> "P"
      [] c = "s" -> "S"
      [] OTHER -> c

Upper(name) == [ i \in DOMAIN name |-> UpperChar(name[i]) ]

\* str.strip(): leading and trailing blanks removed.
RECURSIVE LStrip(_)
LStrip(s) == IF s # << >> /\ Head(s) = " " THEN LStrip(Tail(s)) ELSE s

RECURSIVE RStrip(_)
RStrip(s) ==
    IF s # << >> /\ s[Len(s)] = " " THEN RStrip(SubSeq(s, 1, Len(s) - 1)) ELSE s

Strip(s) == RStrip(LStrip(s))

\* The value None of an Optional[str]; no name is this one.
NoName == << "<None>" >>


\* ----------------------------------------------------------------- entities
\* StepEntity.__init__: the record kept for "#id = TYPE(payload);".
StepEntity(id, type, quoted, refs, nums) ==
    [ id |-> id, type |-> type, quoted |-> quoted, refs |-> refs, nums |-> nums ]

\* full_line as its sequence of #n tokens: the record's own id, then the payload's.
LineTokens(e) == << e.id >> \o e.refs

\* StepEntity._parse_references: the ids of the #n tokens of full_line
\* without the record's own id.
References(e) == Range(LineTokens(e)) \ { e.id }

\* ---------------------------------------------------------------- the graph
\* parser.entities is an OrderedDict: G.ents maps the ids present to their
\* records, G.order lists the keys in insertion order.
EmptyGraph == [ ents |-> << >>, order |-> << >> ]

Present(G) == DOMAIN G.ents

\* StepParser._parse_entities over records that each match the simple form:
\* self.entities[entity_id] = StepEntity(...) for each record in turn.  A
\* new key goes last; a key already present keeps its place and takes the
\* new value, so the last record of an id is the one that stays.
ParseEntities(G, recs) ==
    LET ids == { recs[k].id : k \in DOMAIN recs }
        last(i) == CHOOSE k \in DOMAIN recs :
                      /\ recs[k].id = i
                      /\ \A m \in DOMAIN recs : recs[m].id = i => m <= k
        firsts == SelectSeq([ k \in DOMAIN recs |-> k ],
                            LAMBDA k : /\ recs[k].id \notin Present(G)
                                       /\ \A m \in 1..(k - 1) : recs[m].id # recs[k].id)
    IN [ ents  |-> [ i \in Present(G) \cup ids |->
                       IF i \in ids THEN recs[last(i)] ELSE G.ents[i] ],
         order |-> G.order \o [ k \in DOMAIN firsts |-> recs[firsts[k]].id ] ]

\* StepParser.find_entities_by_type: the ids of one type, in insertion order.
FindEntitiesByType(G, type) ==
    SelectSeq(G.order, LAMBDA i : G.ents[i].type = type)

\* The references of an id, empty when the id is absent (entities.get is None).
RefsOf(G, i) == IF i \in Present(G) THEN References(G.ents[i]) ELSE {}

RECURSIVE Visit(_, _, _)
\* The loop of get_transitive_dependencies: to_visit is a stack, popped at
\* its end; the references not yet visited and present are pushed.
Visit(G, visited, toVisit) ==
    IF toVisit = << >> THEN visited
    ELSE LET current == toVisit[Len(toVisit)]
             rest == SubSeq(toVisit, 1, Len(toVisit) - 1)
         IN IF current \in visited THEN Visit(G, visited, rest)
            ELSE LET seen == visited \cup { current }
                     push == { r \in RefsOf(G, current) :
                                 r \notin seen /\ r \in Present(G) }
                 IN Visit(G, seen, rest \o SetToSeq(push))

\* StepParser.get_transitive_dependencies.
GetTransitiveDependencies(G, id) == Visit(G, {}, << id >>)

\* StepParser.get_referencing_entities.
GetReferencingEntities(G, id) ==
    { i \in Present(G) : id \in References(G.ents[i]) }


\* ----------------------------------------------------- the product resolver
\* None for an Optional[int] or Optional[StepEntity]: ids are positive.
None == 0

TypeOf(G, i) == IF i \in Present(G) THEN G.ents[i].type ELSE "<absent>"

RECURSIVE Concat(_)
\* The concatenation of a sequence of sequences.
Concat(ss) == IF ss = << >> THEN << >> ELSE Head(ss) \o Concat(Tail(ss))

\* [ f(x) for x in s ]
Map(s, f(_)) == [ i \in DOMAIN s |-> f(s[i]) ]

\* The first element of s that is not `none`, else `none`: a loop that
\* returns at its first hit.
FirstHit(s, none) ==
    LET hits == SelectSeq(s, LAMBDA x : x # none)
    IN IF hits = << >> THEN none ELSE Head(hits)

\* "for ref in entity.references": CPython walks a set of small integers in
\* ascending order.
RefSeq(G, i) == SetToSeq(RefsOf(G, i))

\* StepSplitter._get_solid_name: the first quoted string of the body's
\* payload, stripped, when it is not empty.
GetSolidName(G, solid) ==
    IF TypeOf(G, solid) = "MANIFOLD_SOLID_BREP" /\ G.ents[solid].quoted # << >>
    THEN LET name == Strip(Head(G.ents[solid].quoted))
         IN IF name # << >> THEN name ELSE NoName
    ELSE NoName

\* re.search(r"'([^']+)'", content): a quote, one or more characters that are
\* not quotes, a quote.  When the first quoted string is empty the match
\* starts at its closing quote and runs to the opening quote of the next
\* string, so the text between the two strings (a comma) is what is captured.
FirstNonEmptyQuoted(quoted) ==
    IF quoted = << >> THEN NoName
    ELSE IF Head(quoted) # << >> THEN Head(quoted)
    ELSE IF Len(quoted) >= 2 THEN << "," >>
    ELSE NoName

\* StepSplitter._extract_product_name.
ExtractProductName(G, pd) ==
    LET ofPdf(f) ==
            IF TypeOf(G, f) = "PRODUCT_DEFINITION_FORMATION_WITH_SPECIFIED_SOURCE"
            THEN FirstHit(
                   Map(RefSeq(G, f), LAMBDA p :
                         IF TypeOf(G, p) = "PRODUCT"
                         THEN FirstNonEmptyQuoted(G.ents[p].quoted)
                         ELSE NoName),
                   NoName)
            ELSE NoName
    IN FirstHit(Map(RefSeq(G, pd), ofPdf), NoName)

\* StepSplitter._get_product_definition_from_sdr.
GetProductDefinitionFromSdr(G, sdr) ==
    LET ofPds(s) ==
            IF TypeOf(G, s) = "PRODUCT_DEFINITION_SHAPE"
            THEN FirstHit(
                   Map(RefSeq(G, s), LAMBDA d :
                         IF TypeOf(G, d) = "PRODUCT_DEFINITION" THEN d ELSE None),
                   None)
            ELSE None
    IN FirstHit(Map(RefSeq(G, sdr), ofPds), None)

\* The SHAPE_DEFINITION_REPRESENTATIONs that reference id, in insertion order.
SdrsReferencing(G, id) ==
    SelectSeq(FindEntitiesByType(G, "SHAPE_DEFINITION_REPRESENTATION"),
              LAMBDA s : id \in RefsOf(G, s))

\* The SHAPE_REPRESENTATIONs a relationship links to abrep, in the order
\* the loop over srr.references meets them.
LinkedShapeReps(G, srr, abrep) ==
    SelectSeq(RefSeq(G, srr),
              LAMBDA r : r # abrep /\ TypeOf(G, r) = "SHAPE_REPRESENTATION")

\* The ADVANCED_BREP_SHAPE_REPRESENTATIONs that reference solid.
AbrepsContaining(G, solid) ==
    SelectSeq(FindEntitiesByType(G, "ADVANCED_BREP_SHAPE_REPRESENTATION"),
              LAMBDA a : solid \in RefsOf(G, a))

\* The SHAPE_REPRESENTATION_RELATIONSHIPs that reference abrep.
SrrsReferencing(G, abrep) ==
    SelectSeq(FindEntitiesByType(G, "SHAPE_REPRESENTATION_RELATIONSHIP"),
              LAMBDA r : abrep \in RefsOf(G, r))

\* The SDRs _find_product_definition_entity_for_solid tries for one ABSR, in
\* its order: method 1, then method 2.
SdrCandidates(G, abrep) ==
    SdrsReferencing(G, abrep)
    \o Concat(Map(SrrsReferencing(G, abrep), LAMBDA r :
          Concat(Map(LinkedShapeReps(G, r, abrep), LAMBDA sr :
             SdrsReferencing(G, sr)))))

\* StepSplitter._find_product_definition_entity_for_solid, and with it
\* _find_product_definition_for_solid: the id of the PRODUCT_DEFINITION.
FindProductDefinitionForSolid(G, solid) ==
    FirstHit(
      Map(Concat(Map(AbrepsContaining(G, solid), LAMBDA a : SdrCandidates(G, a))),
          LAMBDA s : GetProductDefinitionFromSdr(G, s)),
      None)

\* StepSplitter._find_product_for_solid.
FindProductForSolid(G, solid) ==
    LET pd == FindProductDefinitionForSolid(G, solid)
    IN IF pd # None THEN ExtractProductName(G, pd) ELSE NoName


\* -------------------------------------------------- the dependency collector
\* required.add(ref); required.update(get_transitive_dependencies(ref))
WithClosure(G, ref) == { ref } \cup GetTransitiveDependencies(G, ref)

\* The ABSR _collect_solid_dependencies settles on: the first one, in
\* insertion order, that references the solid (the loop breaks there).
AbrepFound(G, solid) ==
    LET found == AbrepsContaining(G, solid)
    IN IF found = << >> THEN None ELSE Head(found)

\* Lines 544-554: the ABSR, and each of its references other than the solid
\* with what that reference reaches.
AbrepContext(G, solid) ==
    LET abrep == AbrepFound(G, solid)
    IN IF abrep = None THEN {}
       ELSE { abrep } \cup
            UNION { WithClosure(G, ref) : ref \in RefsOf(G, abrep) \ { solid } }

\* StepSplitter._add_sdr_chain: what it adds for one SDR.
AddSdrChain(G, sdr) ==
    LET pdss == { s \in RefsOf(G, sdr) : TypeOf(G, s) = "PRODUCT_DEFINITION_SHAPE" }
        pds == { d \in UNION { RefsOf(G, s) : s \in pdss } :
                   TypeOf(G, d) = "PRODUCT_DEFINITION" }
        props == { q \in Range(FindEntitiesByType(G, "PROPERTY_DEFINITION")) :
                     RefsOf(G, q) \cap pds # {} }
        pdrs == { r \in Range(FindEntitiesByType(G, "PROPERTY_DEFINITION_REPRESENTATION")) :
                    RefsOf(G, r) \cap props # {} }
    IN pdss
       \cup UNION { WithClosure(G, d) : d \in pds }
       \cup UNION { WithClosure(G, q) : q \in props }
       \cup UNION { WithClosure(G, r) : r \in pdrs }

RECURSIVE ViaRelationships(_, _, _, _)
\* Method 2 of _add_product_structure.  steps lists, in the order the nested
\* loops meet them, each relationship << "srr", id >> followed by its linked
\* shape representations << "rep", id >>; acc is what has been added.  The
\* method returns at the first shape representation an SDR references.
ViaRelationships(G, abrep, steps, acc) ==
    IF steps = << >> THEN acc
    ELSE LET step == Head(steps)
         IN IF step[1] = "srr"
            THEN ViaRelationships(G, abrep, Tail(steps), acc \cup { step[2] })
            ELSE LET sdrs == SdrsReferencing(G, step[2])
                     more == acc \cup WithClosure(G, step[2])
                 IN IF sdrs # << >>
                    THEN more \cup { Head(sdrs) } \cup AddSdrChain(G, Head(sdrs))
                    ELSE ViaRelationships(G, abrep, Tail(steps), more)

\* StepSplitter._add_product_structure: what it adds.
AddProductStructure(G, solid, abrep) ==
    IF abrep = None THEN {}
    ELSE LET direct == SdrsReferencing(G, abrep)
         IN IF direct # << >>
            THEN { Head(direct) } \cup AddSdrChain(G, Head(direct))
            ELSE ViaRelationships(G, abrep,
                   Concat(Map(SrrsReferencing(G, abrep), LAMBDA r :
                      << << "srr", r >> >>
                      \o Map(LinkedShapeReps(G, r, abrep), LAMBDA sr : << "rep", sr >>))),
                   {})

\* The STYLED_ITEMs that reference the solid.
StyledItemsOf(G, solid) ==
    { s \in Range(FindEntitiesByType(G, "STYLED_ITEM")) : solid \in RefsOf(G, s) }

\* A faulty AddStyledItemsForSolid: the test "solid_id in styled_item.references"
\* is dropped, so the styling of every solid is added.
AddStyledItemsOfAll(G, solid) ==
    LET all == Range(FindEntitiesByType(G, "STYLED_ITEM"))
    IN all \cup UNION { WithClosure(G, ref) :
                          ref \in UNION { RefsOf(G, s) : s \in all } \ { solid } }

\* StepSplitter._add_styled_items_for_solid: what it adds.
AddStyledItemsForSolid(G, solid) ==
    StyledItemsOf(G, solid)
    \cup UNION { WithClosure(G, ref) :
                   ref \in UNION { RefsOf(G, s) : s \in StyledItemsOf(G, solid) }
                           \ { solid } }

\* StepSplitter._collect_solid_dependencies.
CollectSolidDependencies(G, solid) ==
    GetTransitiveDependencies(G, solid)
    \cup AbrepContext(G, solid)
    \cup AddProductStructure(G, solid, AbrepFound(G, solid))
    \cup AddStyledItemsForSolid(G, solid)


\* --------------------------------------------------------- the geometry hasher
\* geometric_types of compute_geometry_hash.
GeometricTypes ==
    { "CARTESIAN_POINT", "DIRECTION", "VECTOR", "LINE", "CIRCLE", "ELLIPSE",
      "B_SPLINE_CURVE", "B_SPLINE_SURFACE", "PLANE", "CYLINDRICAL_SURFACE",
      "CONICAL_SURFACE", "SPHERICAL_SURFACE", "TOROIDAL_SURFACE",
      "AXIS2_PLACEMENT_3D", "AXIS1_PLACEMENT", "VERTEX_POINT", "EDGE_CURVE",
      "ORIENTED_EDGE", "EDGE_LOOP", "FACE_OUTER_BOUND", "FACE_BOUND",
      "ADVANCED_FACE", "CLOSED_SHELL", "OPEN_SHELL", "MANIFOLD_SOLID_BREP" }

\* f"{num:.6g}" on a literal below 10^7 written without a fraction: six
\* significant digits are kept, a tie going to the even digit; two literals
\* print alike exactly when they round to the same number.
RoundNumber(n) ==
    IF n < 1000000 THEN n
    ELSE LET r == n % 10
             low == n - r
         IN IF r < 5 THEN low
            ELSE IF r > 5 THEN low + 10
            ELSE IF (low \div 10) % 2 = 0 THEN low ELSE low + 10

\* GeometryHasher._normalize_entity: "TYPE(content)" with every #n replaced
\* by #REF (written 0 here, which is no id) and every number rounded.
NormalizeEntity(e) ==
    [ type |-> e.type, quoted |-> e.quoted,
      refs |-> [ i \in DOMAIN e.refs |-> 0 ],
      nums |-> [ i \in DOMAIN e.nums |-> RoundNumber(e.nums[i]) ] ]

\* The characters of the model, in the order used to compare strings.
Alphabet ==
    << " ", ",", "-", "/" >> \o Digits \o << "A", "B", "P", "Q", "_", "a", "p", "s" >>

CharRank(c) == CHOOSE i \in DOMAIN Alphabet : Alphabet[i] = c

\* The type words of the model, in the order used to compare strings.
TypeWords ==
    << "ADVANCED_BREP_SHAPE_REPRESENTATION", "CARTESIAN_POINT", "COLOUR_RGB",
       "GEOMETRIC_REPRESENTATION_CONTEXT", "MANIFOLD_SOLID_BREP",
       "NEXT_ASSEMBLY_USAGE_OCCURRENCE", "PRESENTATION_STYLE_ASSIGNMENT",
       "PRODUCT", "PRODUCT_DEFINITION",
       "PRODUCT_DEFINITION_FORMATION_WITH_SPECIFIED_SOURCE",
       "PRODUCT_DEFINITION_SHAPE", "PRODUCT_DEFINITION_WITH_ASSOCIATED_DOCUMENTS",
       "PROPERTY_DEFINITION", "PROPERTY_DEFINITION_REPRESENTATION",
       "SHAPE_DEFINITION_REPRESENTATION", "SHAPE_REPRESENTATION",
       "SHAPE_REPRESENTATION_RELATIONSHIP", "STYLED_ITEM" >>

TypeRank(t) == CHOOSE i \in DOMAIN TypeWords : TypeWords[i] = t

\* A normalised text as a sequence of numbers that orders like the text.
TextKey(n) ==
    << TypeRank(n.type), Len(n.quoted) >>
    \o Concat([ i \in DOMAIN n.quoted |->
                  << Len(n.quoted[i]) >>
                  \o [ j \in DOMAIN n.quoted[i] |-> CharRank(n.quoted[i][j]) ] ])
    \o << Len(n.refs) >> \o n.refs
    \o << Len(n.nums) >> \o n.nums

RECURSIVE LexLess(_, _)
\* Strict lexicographic order of two sequences of numbers.
LexLess(a, b) ==
    IF b = << >> THEN FALSE
    ELSE IF a = << >> THEN TRUE
    ELSE IF Head(a) # Head(b) THEN Head(a) < Head(b)
    ELSE LexLess(Tail(a), Tail(b))

\* The normalised texts of the whitelisted entities a solid reaches, in
\* the order of "for eid in sorted(deps)".
GeoContent(G, solid) ==
    LET ids == SelectSeq(SetToSeq(GetTransitiveDependencies(G, solid)),
                         LAMBDA i : i \in Present(G)
                                    /\ G.ents[i].type \in GeometricTypes)
    IN [ k \in DOMAIN ids |-> NormalizeEntity(G.ents[ids[k]]) ]

\* A faulty ComputeGeometryHash: geo_content.sort() is left out.
HashUnsorted(G, solid) == GeoContent(G, solid)

\* GeometryHasher.compute_geometry_hash.  The digest is written as the text
\* it is the MD5 of: equal texts give equal digests, and two different texts
\* are taken to give different ones.
ComputeGeometryHash(G, solid) ==
    SortSeq(GeoContent(G, solid), LAMBDA a, b : LexLess(TextKey(a), TextKey(b)))

\* ------------------------------------------------------------------ the writer
\* id_mapping of write_step_file: the k-th id of sorted(entity_ids) maps to k.
IdMapping(ids) ==
    [ old \in ids |-> Cardinality({ x \in ids : x <= old }) ]

\* StepWriter._renumber_references on one #n token.
RenumberToken(tok, mapping) ==
    IF tok \in DOMAIN mapping THEN mapping[tok] ELSE tok

\* StepWriter._renumber_references on a record: every #n of full_line, the
\* one before the "=" too, goes through the map.
RenumberReferences(e, mapping) ==
    [ id     |-> RenumberToken(e.id, mapping),
      type   |-> e.type,
      quoted |-> e.quoted,
      refs   |-> [ i \in DOMAIN e.refs |-> RenumberToken(e.refs[i], mapping) ],
      nums   |-> e.nums ]

\* The ids of sorted(entity_ids) that have a record: "if entity:".
WrittenIds(G, ids) == SelectSeq(SetToSeq(ids), LAMBDA i : i \in Present(G))

\* StepWriter.write_step_file: the FILE_NAME name and the DATA records of
\* the file (the timestamp and the fixed header lines are left out).
WriteStepFile(G, partName, ids) ==
    [ name    |-> Upper(partName),
      records |-> [ k \in DOMAIN WrittenIds(G, ids) |->
                      RenumberReferences(G.ents[WrittenIds(G, ids)[k]],
                                         IdMapping(ids)) ] ]

\* StepSplitter._sanitize_filename.
SanitizeFilename(name) ==
    [ i \in DOMAIN name |-> IF name[i] \in SafeChars THEN name[i] ELSE "_" ]


\* ------------------------------------------------------------ the orchestrator
\* The bodies of the graph: find_entities_by_type("MANIFOLD_SOLID_BREP").
SolidBodies(G) == FindEntitiesByType(G, "MANIFOLD_SOLID_BREP")

\* find_entities_by_type("NEXT_ASSEMBLY_USAGE_OCCURRENCE").
AssemblyOccurrences(G) == FindEntitiesByType(G, "NEXT_ASSEMBLY_USAGE_OCCURRENCE")

\* part_occurrence_count of _split_assembly: how many NAUOs reference the
\* PRODUCT_DEFINITION pd; 0 stands for a key the table does not hold.
PartOccurrenceCount(G, pd) ==
    IF TypeOf(G, pd) # "PRODUCT_DEFINITION" THEN 0
    ELSE Cardinality({ n \in Range(AssemblyOccurrences(G)) : pd \in RefsOf(G, n) })

\* part_occurrence_count.get(pd_id, 1) if pd_id else 1
OccurrencesOr1(G, pd) ==
    IF pd # None /\ PartOccurrenceCount(G, pd) > 0
    THEN PartOccurrenceCount(G, pd) ELSE 1

\* solid_info[solid_id] of _split_assembly: << product_name, count >>.
SolidInfo(G, baseName, solid) ==
    LET productName == FindProductForSolid(G, solid)
    IN IF productName # NoName
       THEN << productName, OccurrencesOr1(G, FindProductDefinitionForSolid(G, solid)) >>
       ELSE << baseName \o << "-" >> \o Str(solid), 1 >>

\* hash_to_solids: the solids grouped by geometry hash, the groups in the
\* order their first member comes, the members in the order of the solids.
HashToSolids(G, solids) ==
    LET h == [ i \in DOMAIN solids |-> ComputeGeometryHash(G, solids[i]) ]
        idx == [ i \in DOMAIN solids |-> i ]
        firsts == SelectSeq(idx, LAMBDA i : \A j \in 1..(i - 1) : h[j] # h[i])
    IN [ k \in DOMAIN firsts |->
           LET members == SelectSeq(idx, LAMBDA j : h[j] = h[firsts[k]])
           IN [ m \in DOMAIN members |-> solids[members[m]] ] ]

\* One call of write_step_file together with its report row.
Emission(G, solid, partName, sanitized, count) ==
    [ solid |-> solid, name |-> partName, file |-> sanitized, count |-> count,
      ids |-> CollectSolidDependencies(G, solid) ]

\* The loop of _split_assembly over the groups: one emission per group.
AssemblyEmissions(G, baseName) ==
    LET groups == HashToSolids(G, SolidBodies(G))
    IN [ k \in DOMAIN groups |->
           LET info == SolidInfo(G, baseName, groups[k][1])
           IN Emission(G, groups[k][1], info[1], SanitizeFilename(info[1]),
                       SumSeq([ m \in DOMAIN groups[k] |->
                                  SolidInfo(G, baseName, groups[k][m])[2] ])) ]

\* The name _split_multi_volume_part and _export_single_part start from:
\* the embedded name, else the product name, else base_name and a number.
VolumeName(G, baseName, solid, ordinal) ==
    IF GetSolidName(G, solid) # NoName THEN GetSolidName(G, solid)
    ELSE IF FindProductForSolid(G, solid) # NoName THEN FindProductForSolid(G, solid)
    ELSE baseName \o << "_" >> \o Str(ordinal)

RECURSIVE VolumeLoop(_, _, _, _, _)
\* The loop of _split_multi_volume_part from group number k on; used is the
\* key set of used_names.
VolumeLoop(G, baseName, groups, k, used) ==
    IF k > Len(groups) THEN << >>
    ELSE LET solid == groups[k][1]
             first == VolumeName(G, baseName, solid, k)
             clash == SanitizeFilename(first) \in used
             partName == IF clash THEN first \o << "-" >> \o Str(solid) ELSE first
         IN << Emission(G, solid, partName, SanitizeFilename(partName),
                        Len(groups[k])) >>
            \o VolumeLoop(G, baseName, groups, k + 1,
                          IF clash THEN used ELSE used \cup { SanitizeFilename(first) })

\* The emissions of _split_multi_volume_part.
MultiVolumeEmissions(G, baseName) ==
    VolumeLoop(G, baseName, HashToSolids(G, SolidBodies(G)), 1, {})

\* The emission of _export_single_part.
SinglePartEmissions(G, baseName) ==
    LET solid == SolidBodies(G)[1]
        partName == VolumeName(G, baseName, solid, 1)
    IN << Emission(G, solid, partName, SanitizeFilename(partName), 1) >>

\* The if/elif of split(): the emissions of the branch the graph G selects.
SplitEmissions(G, baseName) ==
    IF AssemblyOccurrences(G) # << >> THEN AssemblyEmissions(G, baseName)
    ELSE IF Len(SolidBodies(G)) > 1 THEN MultiVolumeEmissions(G, baseName)
    ELSE IF Len(SolidBodies(G)) = 1 THEN SinglePartEmissions(G, baseName)
    ELSE << >>

\* StepParser.parse on a file that write_step_file wrote: its DATA records,
\* one per line, in the order written.
ReadBack(file) == ParseEntities(EmptyGraph, file.records)

RECURSIVE WriteAll(_, _, _)
\* The output directory after the emissions em, starting from dir: a file
\* written under a name already there replaces it (open(path, 'w')).
WriteAll(G, dir, em) ==
    IF em = << >> THEN dir
    ELSE LET e == Head(em)
         IN WriteAll(G,
              [ f \in DOMAIN dir \cup { e.file } |->
                  IF f = e.file THEN WriteStepFile(G, e.name, e.ids) ELSE dir[f] ],
              Tail(em))

\* The rows appended to part_report by the emissions.
ReportRows(em) == [ k \in DOMAIN em |-> << em[k].name, em[k].count >> ]

\* A name as the sequence of numbers that orders like the string.
NameKey(name) == [ i \in DOMAIN name |-> CharRank(name[i]) ]

RECURSIVE InsertRow(_, _)
\* row put into the sorted rows after every row whose name is not greater.
InsertRow(rows, row) ==
    IF rows = << >> THEN << row >>
    ELSE IF LexLess(NameKey(row[1]), NameKey(Head(rows)[1]))
         THEN << row >> \o rows
         ELSE << Head(rows) >> \o InsertRow(Tail(rows), row)

\* A faulty SortedReport: the rows are written in the order of emission.
ReportAsEmitted(rows) == rows

RECURSIVE SortedReport(_)
\* sorted(self.part_report, key=lambda x: x[0]): a stable sort by name.
SortedReport(rows) ==
    IF rows = << >> THEN << >>
    ELSE InsertRow(SortedReport(SubSeq(rows, 1, Len(rows) - 1)), rows[Len(rows)])


\* ------------------------------------------------------------- the input files
(***************************************************************************)
(* An input file is described by what its DATA section holds:              *)
(*   hasData  whether "DATA; ... ENDSEC;" is there at all                  *)
(*   bodies   per MANIFOLD_SOLID_BREP: its embedded name, the literals of  *)
(*            its two points, and its product ("none": no product chain,   *)
(*            "unnamed": a chain whose PRODUCT has no name, else the name) *)
(*   absr     "none", one ABSR "shared" by all bodies, or each body's "own"*)
(*   link     the SDR references the ABSR ("direct") or a                  *)
(*            SHAPE_REPRESENTATION related to it ("srr")                   *)
(*   dangling where a reference to an id without a record stands           *)
(*   style    "none", a STYLED_ITEM and its style per body ("own"), or     *)
(*            these also "listed" among the items of the ABSR              *)
(*   pdType   the type word of the product definitions                     *)
(*   props    whether PROPERTY_DEFINITION(_REPRESENTATION)s are attached   *)
(*   nauo     the number of NEXT_ASSEMBLY_USAGE_OCCURRENCEs                *)
(*   extra    "none", or what stands before the body's product chain: an   *)
(*            "sdr" that references the ABSR and no                        *)
(*            PRODUCT_DEFINITION_SHAPE, or an "absr" that lists the body   *)
(*            and that no SDR references                                   *)
(* Body b has the ids 20b+1 .. 20b+17, the shared records the ids below 20.*)
(***************************************************************************)
EmbeddedNames == { << >>, << "A" >> }

\* Point literals: the first two give the same rounded numbers in another
\* order, the third gives other numbers.
Geos == { << 1000000, 2000000 >>, << 2000000, 1000004 >>, << 1000000, 1000006 >> }

Products == { "none", "unnamed", "P" }

BodyChoices == [ name : EmbeddedNames, geo : Geos, prod : Products ]

\* Inputs that vary the names, the geometry and the products of the bodies.
NamingInputs ==
    { i \in [ hasData : { TRUE },
              bodies  : UNION { [ 1..n -> BodyChoices ] : n \in 0..MaxBodies },
              absr    : { "shared", "own" },
              link    : { "direct" },
              dangling: { "none" },
              style   : { "none" },
              pdType  : { "PRODUCT_DEFINITION" },
              props   : { FALSE },
              nauo    : { 0, MaxNauo },
              extra   : { "none" } ] :
        /\ i.absr = "shared" =>
             \A b \in DOMAIN i.bodies : b > 1 => i.bodies[b].prod = "none"
        /\ i.bodies = << >> => i.absr = "own"
        \* _split_assembly does not read the embedded names
        /\ i.nauo > 0 => \A b \in DOMAIN i.bodies : i.bodies[b].name = << >> }

\* The body b of the inputs that vary the structure around the bodies.
StructureBody(b, shared) ==
    [ name |-> IF b % 2 = 1 THEN << "a", "/" >> ELSE << "a", "_" >>,
      geo  |-> IF b % 2 = 1 THEN << 1000000, 2000000 >> ELSE << 1000000, 1000006 >>,
      prod |-> IF shared /\ b > 1 THEN "none" ELSE IF b % 2 = 1 THEN "P" ELSE "Q" ]

\* Inputs that vary the representation, product and styling records.
StructureInputs ==
    { [ hasData |-> TRUE,
        bodies  |-> [ b \in 1..n |-> StructureBody(b, k.absr = "shared") ],
        absr |-> k.absr, link |-> k.link, dangling |-> k.dangling,
        style |-> k.style, pdType |-> k.pdType, props |-> k.props,
        nauo |-> k.nauo, extra |-> "none" ] :
      n \in 1..MaxBodies,
      k \in [ absr    : { "none", "shared", "own" },
              link    : { "direct", "srr" },
              dangling: { "none", "absr", "geom", "style" },
              style   : { "none", "own", "listed" },
              pdType  : { "PRODUCT_DEFINITION",
                          "PRODUCT_DEFINITION_WITH_ASSOCIATED_DOCUMENTS" },
              props   : BOOLEAN,
              nauo    : 0..MaxNauo ] }

\* A file without a DATA section.
NoDataInput ==
    [ hasData |-> FALSE, bodies |-> << >>, absr |-> "none", link |-> "direct",
      dangling |-> "none", style |-> "none", pdType |-> "PRODUCT_DEFINITION",
      props |-> FALSE, nauo |-> 0, extra |-> "none" ]

\* Inputs in which a body has several ABSRs, or its ABSR several SDRs.
ChainInputs ==
    { [ hasData |-> TRUE,
        bodies  |-> [ b \in 1..n |->
                        [ StructureBody(b, FALSE) EXCEPT !.name = k.name ] ],
        absr |-> "own", link |-> k.link, dangling |-> "none", style |-> "none",
        pdType |-> "PRODUCT_DEFINITION", props |-> k.props, nauo |-> k.nauo,
        extra |-> k.extra ] :
      n \in 1..MaxBodies,
      k \in [ name  : EmbeddedNames,
              link  : { "direct", "srr" },
              props : BOOLEAN,
              nauo  : 0..MaxNauo,
              extra : { "sdr", "absr" } ] }

Inputs == NamingInputs \cup StructureInputs \cup ChainInputs \cup { NoDataInput }

\* os.path.splitext(os.path.basename(filepath))[0] of the input path.
Stem == << "s" >>

\* The id of body b's record of the given role, and of the shared records.
BodyId(b, role) ==
    20 * b + CASE role = "body" -> 1 [] role = "point1" -> 2 [] role = "point2" -> 3
               [] role = "absr" -> 4 [] role = "sdr" -> 5 [] role = "pds" -> 6
               [] role = "pd" -> 7 [] role = "pdf" -> 8 [] role = "product" -> 9
               [] role = "styled" -> 10 [] role = "srr" -> 11
               [] role = "shaperep" -> 12 [] role = "propdef" -> 13
               [] role = "sdr0" -> 16 [] role = "absr0" -> 17
               [] role = "pdr" -> 14 [] role = "psa" -> 15

SharedId(role) ==
    CASE role = "absr" -> 1 [] role = "dangling" -> 3 [] role = "context" -> 5
      [] role = "colour" -> 7 [] role = "nauo" -> 10

NoText == << << >> >>

HasChain(inp, b) ==
    /\ inp.bodies[b].prod # "none"
    /\ inp.absr = "own" \/ (inp.absr = "shared" /\ b = 1)

AbsrIdOf(inp, b) == IF inp.absr = "own" THEN BodyId(b, "absr") ELSE SharedId("absr")

DanglingAt(inp, where) ==
    IF inp.dangling = where THEN << SharedId("dangling") >> ELSE << >>

ListedStyles(inp, bs) ==
    IF inp.style = "listed" THEN [ k \in DOMAIN bs |-> BodyId(bs[k], "styled") ]
    ELSE << >>

\* The records of body b, in file order.
BodyRecords(inp, b) ==
    LET k == inp.bodies[b]
        first(x) == IF b = 1 THEN x ELSE << >>
        chain ==
          IF ~HasChain(inp, b) THEN << >>
          ELSE (IF inp.link = "direct"
                THEN << StepEntity(BodyId(b, "sdr"), "SHAPE_DEFINITION_REPRESENTATION",
                          << >>, << BodyId(b, "pds"), AbsrIdOf(inp, b) >>, << >>) >>
                ELSE << StepEntity(BodyId(b, "srr"), "SHAPE_REPRESENTATION_RELATIONSHIP",
                          NoText, << BodyId(b, "shaperep"), AbsrIdOf(inp, b) >>, << >>),
                        StepEntity(BodyId(b, "shaperep"), "SHAPE_REPRESENTATION",
                          NoText, << SharedId("context") >>, << >>),
                        StepEntity(BodyId(b, "sdr"), "SHAPE_DEFINITION_REPRESENTATION",
                          << >>, << BodyId(b, "pds"), BodyId(b, "shaperep") >>, << >>) >>)
               \o << StepEntity(BodyId(b, "pds"), "PRODUCT_DEFINITION_SHAPE",
                       NoText, << BodyId(b, "pd") >>, << >>),
                     StepEntity(BodyId(b, "pd"), inp.pdType,
                       NoText, << BodyId(b, "pdf") >>, << >>),
                     StepEntity(BodyId(b, "pdf"),
                       "PRODUCT_DEFINITION_FORMATION_WITH_SPECIFIED_SOURCE",
                       NoText, << BodyId(b, "product") >>, << >>),
                     StepEntity(BodyId(b, "product"), "PRODUCT",
                       IF k.prod = "unnamed" THEN NoText
                       ELSE << << k.prod >>, << >> >>,
                       << >>, << >>) >>
               \o (IF inp.props
                   THEN << StepEntity(BodyId(b, "propdef"), "PROPERTY_DEFINITION",
                             NoText, << BodyId(b, "pd") >>, << >>),
                           StepEntity(BodyId(b, "pdr"),
                             "PROPERTY_DEFINITION_REPRESENTATION",
                             << >>, << BodyId(b, "propdef"), SharedId("colour") >>,
                             << >>) >>
                   ELSE << >>)
    IN << StepEntity(BodyId(b, "body"), "MANIFOLD_SOLID_BREP", << k.name >>,
            << BodyId(b, "point1"), BodyId(b, "point2") >>
            \o first(DanglingAt(inp, "geom")), << >>),
          StepEntity(BodyId(b, "point1"), "CARTESIAN_POINT", NoText, << >>,
            << k.geo[1] >>),
          StepEntity(BodyId(b, "point2"), "CARTESIAN_POINT", NoText, << >>,
            << k.geo[2] >>) >>
       \o (IF inp.extra = "absr"
           THEN << StepEntity(BodyId(b, "absr0"), "ADVANCED_BREP_SHAPE_REPRESENTATION",
                     NoText, << BodyId(b, "body"), SharedId("context") >>, << >>) >>
           ELSE << >>)
       \o (IF inp.absr = "own"
           THEN << StepEntity(BodyId(b, "absr"), "ADVANCED_BREP_SHAPE_REPRESENTATION",
                     NoText,
                     << BodyId(b, "body") >> \o ListedStyles(inp, << b >>)
                     \o first(DanglingAt(inp, "absr")) \o << SharedId("context") >>,
                     << >>) >>
           ELSE << >>)
       \o (IF inp.extra = "sdr"
           THEN << StepEntity(BodyId(b, "sdr0"), "SHAPE_DEFINITION_REPRESENTATION",
                     << >>, << AbsrIdOf(inp, b) >>, << >>) >>
           ELSE << >>)
       \o chain
       \o (IF inp.style # "none"
           THEN << StepEntity(BodyId(b, "styled"), "STYLED_ITEM", NoText,
                     << BodyId(b, "psa") >> \o first(DanglingAt(inp, "style"))
                     \o << BodyId(b, "body") >>, << >>),
                   StepEntity(BodyId(b, "psa"), "PRESENTATION_STYLE_ASSIGNMENT",
                     << >>, << SharedId("colour") >>, << >>) >>
           ELSE << >>)

\* The records shared by the bodies, in file order.
SharedRecords(inp) ==
    LET n == Len(inp.bodies)
        all == [ b \in 1..n |-> b ]
    IN (IF inp.absr = "shared"
        THEN << StepEntity(SharedId("absr"), "ADVANCED_BREP_SHAPE_REPRESENTATION",
                  NoText,
                  [ b \in 1..n |-> BodyId(b, "body") ] \o ListedStyles(inp, all)
                  \o DanglingAt(inp, "absr") \o << SharedId("context") >>, << >>) >>
        ELSE << >>)
       \o << StepEntity(SharedId("context"), "GEOMETRIC_REPRESENTATION_CONTEXT",
               << >>, << >>, << 3 >>) >>
       \o (IF inp.style # "none" \/ inp.props
           THEN << StepEntity(SharedId("colour"), "COLOUR_RGB", NoText, << >>,
                     << 1, 0, 0 >>) >>
           ELSE << >>)
       \o [ j \in 1..inp.nauo |->
              StepEntity(SharedId("nauo") + j, "NEXT_ASSEMBLY_USAGE_OCCURRENCE",
                NoText,
                \* the product definitions of body 1 and of body j
                Map(SelectSeq(<< 1 >> \o (IF j > 1 THEN << j >> ELSE << >>),
                              LAMBDA b : b <= n /\ HasChain(inp, b)),
                    LAMBDA b : BodyId(b, "pd")),
                << >>) ]

\* The records of the DATA section of an input file, in file order.
DataRecords(inp) ==
    Concat([ b \in 1..Len(inp.bodies) |-> BodyRecords(inp, b) ]) \o SharedRecords(inp)


\* -------------------------------------------------------------------- the run
VARIABLES
    input,        \* the input file given on the command line
    pc,           \* where the run of main() stands
    entities,     \* parser.entities
    mode,         \* the branch split() took
    dirMade,      \* whether os.makedirs(output_dir) has run
    emitted,      \* the calls of write_step_file so far, in order
    files,        \* the .stp files of the output directory, by file name
    part_report,  \* self.part_report
    report,       \* the lines of the report file, once written
    exitStatus,   \* the exit status of the process, once it has ended
    error,        \* what main() printed after "Error: ", if anything
    walk,         \* a call of get_transitive_dependencies: its arguments,
                  \* its locals and where it stands
    scan          \* a call of _parse_entities: its argument, its locals, the
                  \* entities stored and where it stands

\* The variables of a run of main().
runVars == << input, pc, entities, mode, dirMade, emitted, files, part_report,
              report, exitStatus, error >>

vars == << input, pc, entities, mode, dirMade, emitted, files, part_report,
           report, exitStatus, error, walk, scan >>

\* No call is being followed step by step.
Idle == [ pc |-> "idle" ]

\* The report file is not there.
NoFile == << "<no file>" >>

\* The process is still running.
Running == -1

\* Nothing was printed to stderr.
NoError == ""

\* StepSplitter.__init__ and StepParser.__init__, for any input file.
Init ==
    /\ input \in Inputs
    /\ pc = "start"
    /\ entities = EmptyGraph
    /\ mode = "none"
    /\ dirMade = FALSE
    /\ emitted = << >>
    /\ files = << >>
    /\ part_report = << >>
    /\ report = NoFile
    /\ exitStatus = Running
    /\ error = NoError
    /\ walk = Idle
    /\ scan = Idle

\* StepParser.parse on a file with a DATA section.
Parse ==
    /\ pc = "start"
    /\ input.hasData
    /\ entities' = ParseEntities(EmptyGraph, DataRecords(input))
    /\ pc' = "parsed"
    /\ UNCHANGED << input, mode, dirMade, emitted, files, part_report, report,
                    exitStatus, error, walk, scan >>

\* A faulty ParseFails: the output directory is made before the file is
\* parsed.
ParseFailsInDirectory ==
    /\ pc = "start"
    /\ ~input.hasData
    /\ dirMade' = TRUE
    /\ pc' = "failed"
    /\ exitStatus' = 1
    /\ error' = "Invalid STEP file: DATA section not found"
    /\ UNCHANGED << input, entities, mode, emitted, files, part_report, report,
                    walk, scan >>

\* StepParser.parse raises ValueError("Invalid STEP file: DATA section not
\* found") before split() reaches os.makedirs; main() prints it and exits
\* with status 1.
ParseFails ==
    /\ pc = "start"
    /\ ~input.hasData
    /\ pc' = "failed"
    /\ exitStatus' = 1
    /\ error' = "Invalid STEP file: DATA section not found"
    /\ UNCHANGED << input, entities, mode, dirMade, emitted, files, part_report,
                    report, walk, scan >>

\* What a branch of split() leaves behind: the directory made before it, the
\* files written and the rows appended by its emissions.
Branch(name, em) ==
    /\ mode' = name
    /\ dirMade' = TRUE
    /\ emitted' = emitted \o em
    /\ files' = WriteAll(entities, files, em)
    /\ part_report' = part_report \o ReportRows(em)
    /\ pc' = "emitted"
    /\ UNCHANGED << input, entities, report, exitStatus, error, walk, scan >>

\* The tests of split() that pick the branch, in the order of the if/elif.
AssemblyBranch == AssemblyOccurrences(entities) # << >>

MultiVolumeBranch == ~AssemblyBranch /\ Len(SolidBodies(entities)) > 1

\* A faulty SingleBranch: the body count is looked at before the NAUOs.
SingleBranchFirst == Len(SolidBodies(entities)) = 1

SingleBranch == ~AssemblyBranch /\ Len(SolidBodies(entities)) = 1

EmptyBranch == ~AssemblyBranch /\ Len(SolidBodies(entities)) = 0

\* split(): NEXT_ASSEMBLY_USAGE_OCCURRENCEs are there, _split_assembly runs.
SplitAssembly ==
    /\ pc = "parsed"
    /\ AssemblyBranch
    /\ Branch("assembly", AssemblyEmissions(entities, Stem))

\* split(): no NAUO and several solids, _split_multi_volume_part runs.
SplitMultiVolumePart ==
    /\ pc = "parsed"
    /\ MultiVolumeBranch
    /\ Branch("multi", MultiVolumeEmissions(entities, Stem))

\* split(): no NAUO and one solid, _export_single_part runs.
ExportSinglePart ==
    /\ pc = "parsed"
    /\ SingleBranch
    /\ Branch("single", SinglePartEmissions(entities, Stem))

\* A faulty NoSolids: a file without a solid is refused as an error.
NoSolidsRefused ==
    /\ pc = "parsed"
    /\ EmptyBranch
    /\ dirMade' = TRUE
    /\ pc' = "failed"
    /\ exitStatus' = 1
    /\ error' = "No MANIFOLD_SOLID_BREP entities found"
    /\ UNCHANGED << input, entities, mode, emitted, files, part_report, report,
                    walk, scan >>

\* split(): no NAUO and no solid, "No MANIFOLD_SOLID_BREP entities found".
NoSolids ==
    /\ pc = "parsed"
    /\ EmptyBranch
    /\ Branch("empty", << >>)

\* StepSplitter._write_report, after which main() ends with status 0.
WriteReport ==
    /\ pc = "emitted"
    /\ report' = SortedReport(part_report)
    /\ pc' = "done"
    /\ exitStatus' = 0
    /\ UNCHANGED << input, entities, mode, dirMade, emitted, files, part_report,
                    error, walk, scan >>

Next ==
    \/ Parse
    \/ ParseFails
    \/ SplitAssembly
    \/ SplitMultiVolumePart
    \/ ExportSinglePart
    \/ NoSolids
    \/ WriteReport

Spec == Init /\ [][Next]_vars


\* ------------------------------------- get_transitive_dependencies, stepwise
\* The largest id of the graphs the call is followed on.
MaxNodes == 3

NodeIds == 1..MaxNodes

\* The graph whose records have the ids P, the record i with the #n tokens
\* refs[i] in its payload.
WalkGraph(P, refs) ==
    [ ents  |-> [ i \in P |-> StepEntity(i, "T", << >>, SetToSeq(refs[i]), << >>) ],
      order |-> SetToSeq(P) ]

\* A faulty LoopBody: a reference is pushed whether or not it has a record.
LoopBodyUnchecked(G, visited, toVisit) ==
    LET current == toVisit[Len(toVisit)]
        rest == SubSeq(toVisit, 1, Len(toVisit) - 1)
    IN IF current \in visited
       THEN [ visited |-> visited, to_visit |-> rest ]
       ELSE LET seen == visited \cup { current }
            IN [ visited |-> seen,
                 to_visit |-> rest \o SetToSeq({ r \in RefsOf(G, current) :
                                                   r \notin seen }) ]

\* One turn of the while loop of get_transitive_dependencies (lines 131-141)
\* with to_visit not empty: visited and to_visit after it.
LoopBody(G, visited, toVisit) ==
    LET current == toVisit[Len(toVisit)]
        rest == SubSeq(toVisit, 1, Len(toVisit) - 1)
    IN IF current \in visited
       THEN [ visited |-> visited, to_visit |-> rest ]
       ELSE LET seen == visited \cup { current }
            IN [ visited |-> seen,
                 to_visit |-> rest \o SetToSeq({ r \in RefsOf(G, current) :
                                                   r \notin seen /\ r \in Present(G) }) ]

\* get_transitive_dependencies(entity_id) is called, lines 128-129, with any
\* id on any graph over NodeIds: any set of ids has records, and a record
\* references any other ids, ids without a record among them (its own id is
\* never among entity.references).
WalkInit ==
    /\ \E P \in SUBSET NodeIds, s \in NodeIds :
         \E refs \in [ P -> SUBSET NodeIds ] :
            /\ \A i \in P : i \notin refs[i]
            /\ walk = [ pc |-> "loop", G |-> WalkGraph(P, refs), start |-> s,
                        visited |-> {}, to_visit |-> << s >> ]
    /\ input = NoDataInput
    /\ pc = "start"
    /\ entities = EmptyGraph
    /\ mode = "none"
    /\ dirMade = FALSE
    /\ emitted = << >>
    /\ files = << >>
    /\ part_report = << >>
    /\ report = NoFile
    /\ exitStatus = Running
    /\ error = NoError
    /\ scan = Idle

\* "if current in visited: continue".
WalkSkip ==
    /\ walk.pc = "loop"
    /\ walk.to_visit # << >>
    /\ walk.to_visit[Len(walk.to_visit)] \in walk.visited
    /\ walk' = [ walk EXCEPT
                   !.to_visit = LoopBody(walk.G, walk.visited, walk.to_visit).to_visit ]
    /\ UNCHANGED << runVars, scan >>

\* current is visited and its references are pushed.
WalkVisit ==
    /\ walk.pc = "loop"
    /\ walk.to_visit # << >>
    /\ walk.to_visit[Len(walk.to_visit)] \notin walk.visited
    /\ walk' = [ walk EXCEPT
                   !.visited = LoopBody(walk.G, walk.visited, walk.to_visit).visited,
                   !.to_visit = LoopBody(walk.G, walk.visited, walk.to_visit).to_visit ]
    /\ UNCHANGED << runVars, scan >>

\* "while to_visit" ends the loop: return visited.
WalkReturn ==
    /\ walk.pc = "loop"
    /\ walk.to_visit = << >>
    /\ walk' = [ walk EXCEPT !.pc = "returned" ]
    /\ UNCHANGED << runVars, scan >>

WalkNext ==
    \/ WalkSkip
    \/ WalkVisit
    \/ WalkReturn

\* The call runs on: the interpreter does not stop inside the loop.
WalkSpec == WalkInit /\ [][WalkNext]_vars /\ WF_vars(WalkNext)


\* ---------------------------------------------- _parse_entities, line by line
\* Largest number of lines of a DATA section the scanner is followed on.
MaxLines == 3

\* The lines a DATA section is made of, as their characters.
ScanLines ==
    { << >>,                                                    \* a blank line
      << "#", "1", "=", "T", "(", "#", "2", ")", ";" >>,        \* #1=T(#2);
      << "#", "1", " ", "=", " ", "T", " ", "(", ")", " ", ";" >>, \* #1 = T () ;
      << "#", "2", "=", "T", "(" >>,                            \* #2=T(
      << "#", "1", ",", "#", "2" >>,                            \* #1,#2
      << ")", ";" >>,                                           \* );
      << " ", "#", "1", "=", "(", "T", "(", "#", "1", ")", "T", "(", ")", ")", ";", " " >>,
                                                                \*  #1=(T(#1)T());
      << "#", "2", "=", ";" >>,                                 \* #2=;
      << "#", "1", "=", "T", "(", ")", ")", ";" >>,             \* #1=T());
      << "T", "(", "#", "1", ")", ";" >>,                       \* T(#1);
      << "#", "2", "=", "T", "(", "#", "1", ")" >>,             \* #2=T(#1)
      << "#", "1", "2", "=", "(", "#", "2", ")", ";" >> }       \* #12=(#2);

\* s[i], or "" past the end of s.
CharAt(s, i) == IF i \in DOMAIN s THEN s[i] ELSE ""

\* str.count(c).
Count(s, c) == Cardinality({ i \in DOMAIN s : s[i] = c })

\* line.count('(') - line.count(')').
Balance(s) == Count(s, "(") - Count(s, ")")

RECURSIVE Join(_)
\* ' '.join(lines)
Join(lines) ==
    IF lines = << >> THEN << >>
    ELSE IF Len(lines) = 1 THEN lines[1]
    ELSE Join(SubSeq(lines, 1, Len(lines) - 1)) \o << " " >> \o lines[Len(lines)]

\* \d and [A-Z_0-9] on the characters of ScanLines.
IsDigit(c) == c \in Range(Digits)

IsWordChar(c) == IsDigit(c) \/ c \in { "T", "_" }

RECURSIVE IntOf(_)
\* int(digits)
IntOf(ds) ==
    IF ds = << >> THEN 0
    ELSE 10 * IntOf(SubSeq(ds, 1, Len(ds) - 1))
         + (CHOOSE v \in 0..9 : Digits[v + 1] = ds[Len(ds)])

RECURSIVE SkipSpaces(_, _)
\* \s* from position i on: the position after it.
SkipSpaces(s, i) == IF CharAt(s, i) = " " THEN SkipSpaces(s, i + 1) ELSE i

RECURSIVE DigitsEnd(_, _)
\* \d* from position i on: the position after it.
DigitsEnd(s, i) == IF IsDigit(CharAt(s, i)) THEN DigitsEnd(s, i + 1) ELSE i

RECURSIVE WordEnd(_, _)
\* [A-Z_0-9]* from position i on: the position after it.
WordEnd(s, i) == IF IsWordChar(CharAt(s, i)) THEN WordEnd(s, i + 1) ELSE i

\* re.match(r'#(\d+)\s*=\s*', s): the position after the match, 0 without one.
HeadEnd(s) ==
    LET d == DigitsEnd(s, 2)
        e == SkipSpaces(s, d)
    IN IF CharAt(s, 1) = "#" /\ d > 2 /\ CharAt(s, e) = "="
       THEN SkipSpaces(s, e + 1) ELSE 0

\* r'\((.*)\)\s*;' matched from position p on, with re.DOTALL: the position
\* of the ")" the greedy (.*) leaves over, the last one with only blanks
\* between it and a ";"; 0 without a match.
PayloadEnd(s, p) ==
    LET closings == { j \in DOMAIN s :
                        /\ j > p
                        /\ s[j] = ")"
                        /\ CharAt(s, SkipSpaces(s, j + 1)) = ";" }
    IN IF CharAt(s, p) = "(" /\ closings # {}
       THEN CHOOSE j \in closings : \A k \in closings : k <= j
       ELSE 0

\* No match of a regular expression.
NoMatch == [ ok |-> FALSE ]

\* re.match(r'#(\d+)\s*=\s*([A-Z_0-9]+)\s*\((.*)\)\s*;', s, re.DOTALL)
SimpleForm(s) ==
    LET h == HeadEnd(s)
        w == WordEnd(s, h)
        p == SkipSpaces(s, w)
        c == PayloadEnd(s, p)
    IN IF h = 0 \/ w = h \/ c = 0 THEN NoMatch
       ELSE [ ok |-> TRUE, id |-> IntOf(SubSeq(s, 2, DigitsEnd(s, 2) - 1)),
              type |-> SubSeq(s, h, w - 1), content |-> SubSeq(s, p + 1, c - 1) ]

\* re.match(r'#(\d+)\s*=\s*\((.*)\)\s*;', s, re.DOTALL); the type is the
\* first [A-Z_0-9]+ of the content, "COMPLEX" without one.
ComplexForm(s) ==
    LET h == HeadEnd(s)
        c == PayloadEnd(s, h)
        content == SubSeq(s, h + 1, c - 1)
        words == { i \in DOMAIN content : IsWordChar(content[i]) }
    IN IF h = 0 \/ c = 0 THEN NoMatch
       ELSE [ ok |-> TRUE, id |-> IntOf(SubSeq(s, 2, DigitsEnd(s, 2) - 1)),
              type |-> IF words = {} THEN << "C", "O", "M", "P", "L", "E", "X" >>
                       ELSE SubSeq(content, Min(words),
                                   WordEnd(content, Min(words)) - 1),
              content |-> content ]

\* StepEntity._parse_references: the numbers of the #n of the line, without
\* the record's own id.
ParseReferences(line, id) ==
    { IntOf(SubSeq(line, j + 1, DigitsEnd(line, j + 1) - 1)) :
        j \in { j \in DOMAIN line : line[j] = "#" /\ IsDigit(CharAt(line, j + 1)) } }
    \ { id }

\* StepParser._parse_entity_line: the dict E (E.ents by id, E.order the keys
\* in insertion order) after the record line; a line of neither form leaves
\* it as it is.
ParseEntityLine(E, line) ==
    LET m == IF SimpleForm(line).ok THEN SimpleForm(line) ELSE ComplexForm(line)
    IN IF ~m.ok THEN E
       ELSE [ ents  |-> [ i \in DOMAIN E.ents \cup { m.id } |->
                            IF i = m.id
                            THEN [ id |-> m.id, type |-> m.type, content |-> m.content,
                                   full_line |-> line,
                                   references |-> ParseReferences(line, m.id) ]
                            ELSE E.ents[i] ],
              order |-> IF m.id \in DOMAIN E.ents THEN E.order
                        ELSE Append(E.order, m.id) ]

\* A faulty LoopLine: paren_depth is the count of the last line alone.
LoopLineOwnDepth(st, raw) ==
    LET line == Strip(raw)
        s1 == IF line = << >> THEN st
              ELSE IF ~st.in_entity /\ Head(line) = "#"
              THEN [ st EXCEPT !.in_entity = TRUE, !.current_entity = << line >>,
                               !.paren_depth = Balance(line) ]
              ELSE IF st.in_entity
              THEN [ st EXCEPT !.current_entity = Append(@, line),
                               !.paren_depth = Balance(line) ]
              ELSE st
    IN IF line # << >> /\ s1.in_entity /\ s1.paren_depth <= 0 /\ ";" \in Range(line)
       THEN [ s1 EXCEPT !.entities = ParseEntityLine(@, Join(s1.current_entity)),
                        !.in_entity = FALSE, !.current_entity = << >>,
                        !.paren_depth = 0 ]
       ELSE s1

\* The body of the for loop of _parse_entities (lines 86-103) on the line
\* raw: the locals and self.entities after it.
LoopLine(st, raw) ==
    LET line == Strip(raw)
        s1 == IF line = << >> THEN st
              ELSE IF ~st.in_entity /\ Head(line) = "#"
              THEN [ st EXCEPT !.in_entity = TRUE, !.current_entity = << line >>,
                               !.paren_depth = Balance(line) ]
              ELSE IF st.in_entity
              THEN [ st EXCEPT !.current_entity = Append(@, line),
                               !.paren_depth = @ + Balance(line) ]
              ELSE st
    IN IF line # << >> /\ s1.in_entity /\ s1.paren_depth <= 0 /\ ";" \in Range(line)
       THEN [ s1 EXCEPT !.entities = ParseEntityLine(@, Join(s1.current_entity)),
                        !.in_entity = FALSE, !.current_entity = << >>,
                        !.paren_depth = 0 ]
       ELSE s1

\* The sequences of at most n lines.
LineSeqs(n) == UNION { [ 1..k -> ScanLines ] : k \in 0..n }

\* _parse_entities(data_section) is called on any lines: lines 81-83.
ScanInit ==
    /\ \E ls \in LineSeqs(MaxLines) :
         scan = [ pc |-> "loop", lines |-> ls, i |-> 1, in_entity |-> FALSE,
                  paren_depth |-> 0, current_entity |-> << >>,
                  entities |-> [ ents |-> << >>, order |-> << >> ] ]
    /\ input = NoDataInput
    /\ pc = "start"
    /\ entities = EmptyGraph
    /\ mode = "none"
    /\ dirMade = FALSE
    /\ emitted = << >>
    /\ files = << >>
    /\ part_report = << >>
    /\ report = NoFile
    /\ exitStatus = Running
    /\ error = NoError
    /\ walk = Idle

\* The scanner stands before a line.
AtLine == scan.pc = "loop" /\ scan.i <= Len(scan.lines)

\* The loop body has run on the line the scanner stood before.
LineDone ==
    /\ scan' = [ LoopLine(scan, scan.lines[scan.i]) EXCEPT !.i = scan.i + 1 ]
    /\ UNCHANGED << runVars, walk >>

\* "if not line: continue".
ScanBlank ==
    /\ AtLine
    /\ Strip(scan.lines[scan.i]) = << >>
    /\ LineDone

\* A line outside a record that does not begin with "#": neither branch.
ScanOutside ==
    /\ AtLine
    /\ ~scan.in_entity
    /\ Strip(scan.lines[scan.i]) # << >>
    /\ Head(Strip(scan.lines[scan.i])) # "#"
    /\ LineDone

\* "if not in_entity and line.startswith('#')": a record starts, and it is
\* closed at once when the third test holds.
ScanOpen ==
    /\ AtLine
    /\ ~scan.in_entity
    /\ Strip(scan.lines[scan.i]) # << >>
    /\ Head(Strip(scan.lines[scan.i])) = "#"
    /\ LineDone

\* "elif in_entity": the line joins the open record, which is closed when
\* the third test holds.
ScanAppend ==
    /\ AtLine
    /\ scan.in_entity
    /\ Strip(scan.lines[scan.i]) # << >>
    /\ LineDone

\* The for loop has run out of lines: _parse_entities returns.
ScanReturn ==
    /\ scan.pc = "loop"
    /\ scan.i > Len(scan.lines)
    /\ scan' = [ scan EXCEPT !.pc = "returned" ]
    /\ UNCHANGED << runVars, walk >>

ScanNext ==
    \/ ScanBlank
    \/ ScanOutside
    \/ ScanOpen
    \/ ScanAppend
    \/ ScanReturn

ScanSpec == ScanInit /\ [][ScanNext]_vars


\* ------------------------------------------------------------------ properties
\* The file the k-th call of write_step_file wrote.
EmittedFile(k) == WriteStepFile(entities, emitted[k].name, emitted[k].ids)

\* The input ids of the records of that file, in the order of the records.
EmittedSources(k) == WrittenIds(entities, emitted[k].ids)

\* C1: in every emitted file the record ids are exactly 1..|S|, S the
\* selected id set: one record per element of S, numbered by position,
\* without a gap and without a missing record.
C1_DenseRecordIds ==
    \A k \in DOMAIN emitted :
        LET recs == EmittedFile(k).records
        IN /\ Len(recs) = Cardinality(emitted[k].ids)
           /\ \A j \in DOMAIN recs : recs[j].id = j

\* C2: in every emitted file every reference token either was dangling in
\* the input or has become the new id, within 1..|S|, of the record written
\* for the very entity it referenced in the input.
C2_ReferencesRewritten ==
    \A k \in DOMAIN emitted :
        LET recs == EmittedFile(k).records
            src == EmittedSources(k)
        IN \A j \in DOMAIN recs :
             \A i \in DOMAIN recs[j].refs :
                LET old == entities.ents[src[j]].refs[i]
                    new == recs[j].refs[i]
                IN \/ old \notin Present(entities)
                   \/ /\ new \in 1..Cardinality(emitted[k].ids)
                      /\ \E t \in DOMAIN recs : src[t] = old /\ recs[t].id = new

\* C3: a reference to an id without a record is written to every emitted
\* file with the number it had in the input, and that id is never a member
\* of the dependency set.
C3_DanglingVerbatim ==
    \A k \in DOMAIN emitted :
        LET recs == EmittedFile(k).records
            src == EmittedSources(k)
        IN \A j \in DOMAIN recs :
             \A i \in DOMAIN recs[j].refs :
                LET old == entities.ents[src[j]].refs[i]
                IN old \notin Present(entities) =>
                     /\ recs[j].refs[i] = old
                     /\ old \notin emitted[k].ids

\* C4: the dependency set of every body B holds exactly one
\* MANIFOLD_SOLID_BREP, B itself.
C4_ExactlyThatBody ==
    pc = "parsed" =>
      \A B \in Range(SolidBodies(entities)) :
         { x \in CollectSolidDependencies(entities, B) :
             TypeOf(entities, x) = "MANIFOLD_SOLID_BREP" } = { B }


\* The fingerprint groups of the bodies of the parsed graph.
Groups == HashToSolids(entities, SolidBodies(entities))

\* C5: after a run the number of .stp files in the output directory equals
\* the number of fingerprint groups and the number of report rows: no two
\* groups are written under the same file name.
C5_OneFilePerGroup ==
    pc = "done" =>
      /\ Cardinality(DOMAIN files) = Len(Groups)
      /\ Len(report) = Len(Groups)

\* The number of NEXT_ASSEMBLY_USAGE_OCCURRENCEs whose references include pd.
NauoReferencesTo(pd) ==
    Cardinality({ n \in Present(entities) :
                    /\ entities.ents[n].type = "NEXT_ASSEMBLY_USAGE_OCCURRENCE"
                    /\ pd \in References(entities.ents[n]) })

\* The occurrences C6 gives a body: the NAUO references to its resolvable
\* PRODUCT_DEFINITION (1 when there is none), 1 without such a definition.
OccurrencesOfBody(B) ==
    LET pd == FindProductDefinitionForSolid(entities, B)
    IN IF pd # None /\ NauoReferencesTo(pd) > 0 THEN NauoReferencesTo(pd) ELSE 1

\* C6: the counts of the report rows add up to the number of bodies in
\* multi-volume mode, and in assembly mode to the sum over the bodies of
\* their NAUO-weighted occurrences, a name for the product or not.
C6_ReportSum ==
    pc = "done" =>
      LET total == SumSeq([ k \in DOMAIN report |-> report[k][2] ])
          bodies == SolidBodies(entities)
      IN /\ mode = "multi" => total = Len(bodies)
         /\ mode = "assembly" =>
              total = SumSeq([ k \in DOMAIN bodies |-> OccurrencesOfBody(bodies[k]) ])

\* C9: a body with neither a non-empty embedded name nor a product name is
\* emitted under the name "{stem}_{ordinal}", in every mode.
C9_SynthesisedName ==
    \A k \in DOMAIN emitted :
        ( /\ GetSolidName(entities, emitted[k].solid) = NoName
          /\ FindProductForSolid(entities, emitted[k].solid) = NoName )
        => emitted[k].name = Stem \o << "_" >> \o Str(k)


\* Whether the graph holds a NEXT_ASSEMBLY_USAGE_OCCURRENCE, and how many
\* MANIFOLD_SOLID_BREPs it holds, read off the records themselves.
HasNauo ==
    \E i \in Present(entities) :
        entities.ents[i].type = "NEXT_ASSEMBLY_USAGE_OCCURRENCE"

BodyCount ==
    Cardinality({ i \in Present(entities) :
                    entities.ents[i].type = "MANIFOLD_SOLID_BREP" })

\* The branch the strict priority of C7 asks for.
ModeByPriority ==
    IF HasNauo THEN "assembly"
    ELSE IF BodyCount > 1 THEN "multi"
    ELSE IF BodyCount = 1 THEN "single"
    ELSE "empty"

\* The number of branches of split() whose test holds in the current state.
BranchesEnabled ==
    Cardinality({ b \in { "assembly", "multi", "single", "empty" } :
                    \/ b = "assembly" /\ AssemblyBranch
                    \/ b = "multi" /\ MultiVolumeBranch
                    \/ b = "single" /\ SingleBranch
                    \/ b = "empty" /\ EmptyBranch })

\* The state part of C7.
StrategyChosen ==
    /\ pc \in { "start", "parsed", "failed" } => mode = "none" /\ report = NoFile
    /\ pc = "parsed" => BranchesEnabled = 1
    /\ pc \in { "emitted", "done" } =>
         /\ mode = ModeByPriority
         /\ mode = "single" =>
              /\ Len(emitted) = 1
              /\ Len(part_report) = 1 /\ part_report[1][2] = 1
         /\ mode = "empty" => emitted = << >> /\ files = << >>
    /\ pc = "emitted" => report = NoFile
    /\ pc = "done" => report # NoFile

\* The step part of C7: a branch runs once, from the parsed graph; the step
\* after a branch writes the report; nothing is emitted at another time.
StrategyOrder ==
    /\ mode' # mode => pc = "parsed" /\ mode = "none" /\ pc' = "emitted"
    /\ pc = "parsed" => mode' = ModeByPriority
    /\ pc = "emitted" => pc' = "done" /\ report' # NoFile /\ mode' = mode
    /\ emitted' # emitted \/ files' # files => pc = "parsed"
    /\ report' # report => pc = "emitted"

\* C7: the strategy follows the strict priority NAUO, several bodies, one
\* body, none; single mode makes one emission and one row of count 1; the
\* empty mode emits nothing; exactly one branch runs, once, and the report
\* is written after it in every case.
C7_StrategyPriority == []StrategyChosen /\ [][StrategyOrder]_vars

\* C7 happens: NAUOs and a single body, which runs as an assembly.
C7_Witness ==
    /\ pc = "done" /\ mode = "assembly" /\ BodyCount = 1
    /\ report # NoFile


\* The multiset of the normalised texts of the whitelisted entities the
\* body B reaches: each text with the number of times it comes.
NormalisedBag(B) ==
    LET c == GeoContent(entities, B)
    IN [ n \in Range(c) |-> Cardinality({ k \in DOMAIN c : c[k] = n }) ]

\* The graph of the input file with every id i, before the "=" and in the
\* references, written as p[i]; the records keep their place in the file.
Renumber(G, p) ==
    [ ents  |-> [ j \in { p[i] : i \in Present(G) } |->
                    RenumberReferences(
                       G.ents[CHOOSE i \in Present(G) : p[i] = j], p) ],
      order |-> [ k \in DOMAIN G.order |-> p[G.order[k]] ] ]

\* Bijections of the ids 1..100: i to k * i modulo the prime 101; the last
\* one turns the order of the ids round.
Renumberings == { [ i \in 1..100 |-> (k * i) % 101 ] : k \in { 2, 7, 100 } }

\* C8: two bodies with the same multiset of normalised texts are in the same
\* group; every group makes one call of write_step_file, for one of its
\* bodies, and one report row; the partition into groups of a renumbered
\* input is the renumbered partition.
C8_SameGeometrySameGroup ==
    pc \in { "emitted", "done" } =>
      LET groups == Groups
          bodies == Range(SolidBodies(entities))
          bag == [ B \in bodies |-> NormalisedBag(B) ]
      IN /\ \A B1, B2 \in bodies :
               bag[B1] = bag[B2] =>
                 \E k \in DOMAIN groups : { B1, B2 } \subseteq Range(groups[k])
         /\ Len(emitted) = Len(groups)
         /\ Len(part_report) = Len(groups)
         /\ \A k \in DOMAIN emitted : emitted[k].solid \in Range(groups[k])
         /\ pc = "done" => Len(report) = Len(groups)
         /\ pc = "emitted" =>
              \A p \in Renumberings :
                 LET H == Renumber(entities, p)
                 IN HashToSolids(H, SolidBodies(H)) =
                      [ k \in DOMAIN groups |->
                          [ m \in DOMAIN groups[k] |-> p[groups[k][m]] ] ]

\* C8 happens: two bodies whose normalised texts come in different orders
\* are one group, emitted once with the count 2.
C8_Witness ==
    /\ pc = "emitted"
    /\ LET groups == Groups
       IN \E k \in DOMAIN groups :
            /\ Len(groups[k]) = 2
            /\ GeoContent(entities, groups[k][1]) # GeoContent(entities, groups[k][2])
            /\ emitted[k].count = 2


\* The STYLED_ITEMs of the graph, and those that do not reference the body B.
StyledItems == Range(FindEntitiesByType(entities, "STYLED_ITEM"))

ForeignItems(B) == { s \in StyledItems : B \notin RefsOf(entities, s) }

RECURSIVE OnlyFrom(_, _)
\* The greatest part of X whose members are referenced from F and X only.
OnlyFrom(F, X) ==
    LET keep == { x \in X : GetReferencingEntities(entities, x) \subseteq F \cup X }
    IN IF keep = X THEN X ELSE OnlyFrom(F, keep)

\* The entities reachable only from STYLED_ITEMs that do not reference B.
OnlyForeignStyling(B) ==
    OnlyFrom(ForeignItems(B),
             UNION { GetTransitiveDependencies(entities, s) : s \in ForeignItems(B) }
             \ ForeignItems(B))

\* Every STYLED_ITEM that references B is in deps, with each of its other
\* references and what that reference reaches.
OwnStylingIn(B, deps) ==
    \A s \in StyledItems \ ForeignItems(B) :
        /\ s \in deps
        /\ \A r \in RefsOf(entities, s) \ { B } :
              { r } \cup GetTransitiveDependencies(entities, r) \subseteq deps

C12_NoDataFailsCleanly ==
    ~input.hasData =>
      /\ pc \in { "start", "failed" }
      /\ ~dirMade
      /\ files = << >>
      /\ emitted = << >>
      /\ report = NoFile
      /\ pc = "failed" =>
            /\ exitStatus = 1
            /\ error = "Invalid STEP file: DATA section not found"
      /\ pc = "start" => exitStatus = Running /\ error = NoError

\* C12 happens: the run on a file without a DATA section has ended.
C12_Witness == ~input.hasData /\ pc = "failed" /\ exitStatus = 1


\* C13: when the parsed graph holds no MANIFOLD_SOLID_BREP, with or without
\* NEXT_ASSEMBLY_USAGE_OCCURRENCEs, the run does not fail and writes no .stp
\* file, and when it has ended its exit status is 0 and the report file is
\* there and empty.
C13_NoSolidEmptyReport ==
    (input.hasData /\ pc # "start" /\ SolidBodies(entities) = << >>) =>
      /\ pc \in { "parsed", "emitted", "done" }
      /\ emitted = << >>
      /\ files = << >>
      /\ part_report = << >>
      /\ error = NoError
      /\ pc # "done" => report = NoFile /\ exitStatus = Running
      /\ pc = "done" => report = << >> /\ exitStatus = 0 /\ dirMade

\* C13 happens: a run on a graph with NEXT_ASSEMBLY_USAGE_OCCURRENCEs and
\* without a solid has ended.
C13_Witness ==
    /\ pc = "done"
    /\ SolidBodies(entities) = << >>
    /\ AssemblyOccurrences(entities) # << >>
    /\ mode = "assembly"


\* The number of places of the row sequence rows that hold row.
RowCount(rows, row) == Cardinality({ i \in DOMAIN rows : rows[i] = row })

\* C14: the report of a finished run has one row per fingerprint group, the
\* rows are the (name, count) pairs of the emissions, each as often as it was
\* emitted, every count is at least 1, and no row stands before a row whose
\* name is lexicographically smaller, whatever the order of emission was.
C14_ReportSortedByName ==
    pc = "done" =>
      LET groups == Groups
      IN /\ Len(report) = Len(groups)
         /\ Len(report) = Len(emitted)
         /\ \A k \in DOMAIN emitted :
              LET row == << emitted[k].name, emitted[k].count >>
              IN /\ RowCount(report, row) >= 1
                 /\ RowCount(report, row) = RowCount(ReportRows(emitted), row)
         /\ \A i \in DOMAIN report : report[i][2] >= 1
         /\ \A i, j \in DOMAIN report :
              i < j => ~LexLess(NameKey(report[j][1]), NameKey(report[i][1]))

\* C14 happens: a finished run emitted a group with a greater name before a
\* group with a smaller one.
C14_Witness ==
    /\ pc = "done"
    /\ Len(report) >= 2
    /\ \E i, j \in DOMAIN part_report :
          /\ i < j
          /\ LexLess(NameKey(part_report[j][1]), NameKey(part_report[i][1]))


\* The files a second run writes when its input is the output file f of the
\* first run: f without ".stp" is the stem of that run.
SecondRun(f) ==
    LET G2 == ReadBack(files[f])
        em == SplitEmissions(G2, f)
    IN [ k \in DOMAIN em |-> WriteStepFile(G2, em[k].name, em[k].ids) ]

\* C11: idempotence. For every output file F with one MANIFOLD_SOLID_BREP,
\* the run on F collects all of F's records, renumbers nothing and writes
\* one file with F's header name and F's DATA records.
C11_Idempotent ==
    pc = "done" =>
      \A f \in DOMAIN files :
         LET G2 == ReadBack(files[f])
             em == SplitEmissions(G2, f)
         IN Len(SolidBodies(G2)) = 1 =>
              /\ Len(em) = 1
              /\ em[1].ids = Present(G2)
              /\ \A i \in em[1].ids : IdMapping(em[1].ids)[i] = i
              /\ SecondRun(f)[1].name = files[f].name
              /\ Range(SecondRun(f)[1].records) = Range(files[f].records)


\* The PRODUCTs a name read from the PRODUCT_DEFINITION pd can come from.
NamingProducts(G, pd) ==
    { p \in Present(G) :
        /\ TypeOf(G, p) = "PRODUCT"
        /\ FirstNonEmptyQuoted(G.ents[p].quoted) # NoName
        /\ \E f \in RefsOf(G, pd) :
              /\ TypeOf(G, f) = "PRODUCT_DEFINITION_FORMATION_WITH_SPECIFIED_SOURCE"
              /\ p \in RefsOf(G, f) }

\* C17: whenever the name or the count of an emission was read from the
\* PRODUCT_DEFINITION that _find_product_definition_entity_for_solid finds
\* for the body, that PRODUCT_DEFINITION and the PRODUCT that gave the name
\* are in the dependency set written for the body.
C17_ResolverAgreesWithCollector ==
    \A k \in DOMAIN emitted :
       LET B  == emitted[k].solid
           pd == FindProductDefinitionForSolid(entities, B)
       IN ( /\ pd # None
            /\ FindProductForSolid(entities, B) # NoName
            /\ mode = "assembly" \/ GetSolidName(entities, B) = NoName ) =>
            /\ pd \in emitted[k].ids
            /\ NamingProducts(entities, pd) # {}
            /\ NamingProducts(entities, pd) \subseteq emitted[k].ids


RECURSIVE Closure(_, _, _)
\* S together with what n steps along the out-references of present
\* entities reach from it, the ids without a record left out.
Closure(G, S, n) ==
    IF n = 0 THEN S
    ELSE Closure(G, S \cup { r \in Present(G) : \E x \in S : r \in RefsOf(G, x) },
                 n - 1)

\* The start id and every present id reachable from it.
Reachable(G, start) == Closure(G, { start }, Cardinality(Present(G)))

\* What the loop has left to do: the ids not yet visited weigh more than
\* any stack.
WalkMeasure ==
    IF walk.pc # "loop" THEN 0
    ELSE 1 + Len(walk.to_visit)
         + (MaxNodes * MaxNodes + 2)
           * Cardinality((Present(walk.G) \cup { walk.start }) \ walk.visited)

\* The result of the call that has returned.
WalkResult ==
    walk.pc = "returned" =>
      /\ walk.visited = Reachable(walk.G, walk.start)
      /\ walk.visited \ Present(walk.G) \subseteq { walk.start }
      /\ walk.start \in walk.visited
      /\ walk.visited = GetTransitiveDependencies(walk.G, walk.start)

\* C15: on every graph, with cycles and dangling references, and for every
\* start id, get_transitive_dependencies terminates (every turn of the loop
\* lowers a measure that is never negative, and the call returns) and returns
\* the start id with every present id reachable from it; an id without a
\* record is in the result only when it is the start id.
C15_TransitiveDependencies ==
    /\ [](WalkResult /\ WalkMeasure >= 0
          /\ (walk.pc = "loop" => Len(walk.to_visit) <= MaxNodes * MaxNodes + 1))
    /\ [][WalkMeasure' < WalkMeasure]_vars
    /\ <>(walk.pc = "returned")

\* C15 happens: a call has returned on a graph in which a visited record
\* lies on a cycle and a visited record holds a dangling reference.
C15_Witness ==
    /\ walk.pc = "returned"
    /\ \E x \in walk.visited \cap Present(walk.G) :
          x \in Closure(walk.G, RefsOf(walk.G, x) \cap Present(walk.G), MaxNodes)
    /\ \E x \in walk.visited : RefsOf(walk.G, x) \ Present(walk.G) # {}
    /\ Cardinality(walk.visited) >= 2


\* The lines cur of a record close it: the "(" minus ")" of the joined lines
\* is not positive and the last line holds a ";".
Closes(cur) == Balance(Join(cur)) <= 0 /\ ";" \in Range(cur[Len(cur)])

\* The stripped lines of the DATA section that are not blank.
NonBlank(lines) ==
    SelectSeq([ i \in DOMAIN lines |-> Strip(lines[i]) ], LAMBDA l : l # << >>)

RECURSIVE Records(_, _)
\* The records of the non-blank lines ls from line p on: a record starts at
\* the first line that begins with "#" and ends at the first line that
\* closes it; lines that never close are no record.
Records(ls, p) ==
    IF p > Len(ls) THEN << >>
    ELSE IF Head(ls[p]) # "#" THEN Records(ls, p + 1)
    ELSE LET ends == { e \in p..Len(ls) : Closes(SubSeq(ls, p, e)) }
         IN IF ends = {} THEN << >>
            ELSE << Join(SubSeq(ls, p, Min(ends))) >> \o Records(ls, Min(ends) + 1)

\* The places of the line where "#" and the digits of id stand.
Mentions(line, id) ==
    { j \in DOMAIN line :
        /\ line[j] = "#"
        /\ IsDigit(CharAt(line, j + 1))
        /\ IntOf(SubSeq(line, j + 1, DigitsEnd(line, j + 1) - 1)) = id }

\* The locals of the scanner: an open record began with "#", its depth is the
\* count over its joined lines and none of its lines closed it; without an
\* open record the depth is 0.
ScanLocals ==
    /\ scan.pc \in { "loop", "returned" }
    /\ IF scan.in_entity
       THEN /\ scan.current_entity # << >>
            /\ Head(scan.current_entity[1]) = "#"
            /\ scan.paren_depth = Balance(Join(scan.current_entity))
            /\ \A k \in DOMAIN scan.current_entity :
                  ~Closes(SubSeq(scan.current_entity, 1, k))
       ELSE scan.current_entity = << >> /\ scan.paren_depth = 0

\* Every entity stored came from a record of one of the two forms, is kept
\* under its id and does not reference itself; the records from which
\* entities are stored are the closed records of the lines read so far.
ScanStored ==
    LET recs == Records(NonBlank(SubSeq(scan.lines, 1, scan.i - 1)), 1)
        E == scan.entities
    IN /\ \A id \in DOMAIN E.ents :
            /\ E.ents[id].id = id
            /\ id \notin E.ents[id].references
            /\ \A n \in E.ents[id].references : Mentions(E.ents[id].full_line, n) # {}
            /\ SimpleForm(E.ents[id].full_line).ok \/ ComplexForm(E.ents[id].full_line).ok
            /\ \E k \in DOMAIN recs : recs[k] = E.ents[id].full_line
       /\ \A k \in DOMAIN recs :
            (SimpleForm(recs[k]).ok \/ ComplexForm(recs[k]).ok)
              => \E id \in DOMAIN E.ents : Mentions(recs[k], id) # {}
                                              /\ 1 \in Mentions(recs[k], id)
       /\ Range(E.order) = DOMAIN E.ents

\* One line is read: it starts a record only outside a record and when it
\* begins with "#"; the record is closed exactly when its lines close it, and
\* then the scanner is outside a record with depth 0, and a record of neither
\* form leaves the entities as they were; otherwise nothing is stored.
ScanStep ==
    AtLine =>
      LET line == Strip(scan.lines[scan.i])
          cur == IF line = << >> THEN << >>
                 ELSE IF scan.in_entity THEN Append(scan.current_entity, line)
                 ELSE IF Head(line) = "#" THEN << line >>
                 ELSE << >>
      IN IF cur = << >>
         THEN /\ scan'.in_entity = scan.in_entity
              /\ scan'.current_entity = scan.current_entity
              /\ scan'.paren_depth = scan.paren_depth
              /\ scan'.entities = scan.entities
         ELSE IF Closes(cur)
         THEN /\ ~scan'.in_entity
              /\ scan'.paren_depth = 0
              /\ scan'.current_entity = << >>
              /\ (~SimpleForm(Join(cur)).ok /\ ~ComplexForm(Join(cur)).ok)
                   => scan'.entities = scan.entities
              /\ (SimpleForm(Join(cur)).ok \/ ComplexForm(Join(cur)).ok)
                   => \E id \in DOMAIN scan'.entities.ents :
                         scan'.entities.ents[id].full_line = Join(cur)
         ELSE /\ scan'.in_entity
              /\ scan'.current_entity = cur
              /\ scan'.entities = scan.entities

\* What the scanner has left to do: the lines not yet read, and the return.
ScanMeasure ==
    IF scan.pc = "loop" THEN 1 + Len(scan.lines) + 1 - scan.i ELSE 0

\* C16: on any lines the scanner never fails and comes to its end (every
\* step lowers a measure that is never negative, and a step is always there
\* until the scanner has returned); a record
\* starts at a non-blank line that begins with "#" while no record is open
\* and is closed at the first line at which the "(" minus ")" count of its
\* joined lines is not positive and which holds a ";", after which no record
\* is open and the depth is 0; a closed record of neither form stores
\* nothing, and no entity stored references its own id.
C16_RecordScanning ==
    /\ [](ScanLocals /\ ScanStored /\ ScanMeasure >= 0)
    /\ [][ScanStep /\ ScanMeasure' < ScanMeasure]_vars

\* C16 happens: the scanner has returned after it stored a record made of
\* several lines that names its own id in its payload.
C16_Witness ==
    /\ scan.pc = "returned"
    /\ \E id \in DOMAIN scan.entities.ents :
          LET e == scan.entities.ents[id]
          IN /\ \A i \in DOMAIN scan.lines : Strip(scan.lines[i]) # e.full_line
             /\ Cardinality(Mentions(e.full_line, id)) >= 2
             /\ e.references # {}

=========================================================================
